---- MODULE Spec2Model ----
(***************************************************************************)
(* Model of sk0ppbot (src/bot.py): the per-chat state store, the per-chat  *)
(* asyncio locks, the rate limiter, the history trimmers, the GC sweep and *)
(* the text / command handlers running as cooperatively scheduled tasks.   *)
(*                                                                         *)
(* One action of the model is one maximal run of Python code between two   *)
(* suspension points (await) of a task: asyncio never interleaves anything *)
(* inside such a run.                                                      *)
(*                                                                         *)
(* Text is a sequence of one-character strings, so that len(), strip() and *)
(* slicing are computed, not assumed.  Times are integers (clock ticks).   *)
(***************************************************************************)
EXTENDS Integers, Sequences, FiniteSets, TLC

(***************************************************************************)
(* Program constants, scaled down so that every limit is reached within    *)
(* the explored runs (the source values are in the comments).              *)
(***************************************************************************)
\* MAX_HISTORY_MESSAGES = 12
MAX_HISTORY_MESSAGES == 2
\* WINDOW_SEC = 10
WINDOW_SEC == 1
\* MAX_MSG_PER_WINDOW = 4
MAX_MSG_PER_WINDOW == 1
\* MAX_INPUT_CHARS = 4000
MAX_INPUT_CHARS == 2
\* MAX_CONTEXT_CHARS = 24000
MAX_CONTEXT_CHARS == 4
\* STATE_TTL_SEC = 24 * 60 * 60
STATE_TTL_SEC == 1
\* MAX_CHAT_STATES = 2000
MAX_CHAT_STATES == 1
\* STATE_GC_INTERVAL_SEC = 60 * 10
STATE_GC_INTERVAL_SEC == 1
\* the slice [:4000] applied to the reply in on_text
MAX_REPLY_CHARS == 3

DEFAULT_MODEL == "default"
FALLBACK_MODEL == "fallback"
SYSTEM_PROMPT == <<"S">>

(***************************************************************************)
(* Bounds of the exploration.                                              *)
(***************************************************************************)
NumChats == 2
NumTasks == 2
MaxTime == 2
MaxMsgs == 2
MaxCmds == 1
\* SpecGC: the most entries of a dict handed to gc_states
MaxGcEntries == 3
\* SpecTrim: the longest history and the largest budget tried
MaxTrimLen == 3
MaxBudget == 5
\* SpecRL: the limiters, the calls of allow and the times tried
MaxRlWindow == 2
MaxRlHits == 2
MaxRlCalls == 4
MaxRlTime == 4

Chats == 1..NumChats
Tasks == 1..NumTasks
Times == 0..MaxTime

\* the model names a "/model <name>" command may carry
ModelNames == {"m2"}
\* texts of inbound messages (raw, before strip())
UserTexts == { <<" ">>, <<" ", "b", "b">>, <<"c", "c", "c">> }
\* message.content values the backend may return (raw, before strip())
RawAnswers == { <<" ">>, <<"x">>, <<"y", "y", "y", "y">> }

\* the fixed reply texts of the handlers
RATE_MSG == <<"R">>
LONG_MSG == <<"L">>
ERROR_MSG == <<"E">>
EMPTY_ANSWER_MSG == <<"P">>
INTERNAL_MSG == <<"I">>

(***************************************************************************)
(* Text helpers.                                                           *)
(***************************************************************************)
RECURSIVE LStrip(_)
LStrip(s) == IF s # <<>> /\ Head(s) = " " THEN LStrip(Tail(s)) ELSE s

RECURSIVE RStrip(_)
RStrip(s) ==
  IF s # <<>> /\ s[Len(s)] = " " THEN RStrip(SubSeq(s, 1, Len(s) - 1)) ELSE s

\* str.strip()
Strip(s) == RStrip(LStrip(s))

\* s[:n]
Prefix(s, n) == SubSeq(s, 1, IF Len(s) < n THEN Len(s) ELSE n)

\* s[-n:]
LastN(s, n) == IF Len(s) <= n THEN s ELSE SubSeq(s, Len(s) - n + 1, Len(s))

Msg(r, c) == [role |-> r, content |-> c]

RECURSIVE FilterRoles(_)
\* [m for m in hist if m.get("role") in ("user", "assistant")]
FilterRoles(hist) ==
  IF hist = <<>> THEN <<>>
  ELSE IF Head(hist).role \in {"user", "assistant"}
       THEN <<Head(hist)>> \o FilterRoles(Tail(hist))
       ELSE FilterRoles(Tail(hist))

RECURSIVE SumContent(_)
SumContent(hist) ==
  IF hist = <<>> THEN 0 ELSE Len(Head(hist).content) + SumContent(Tail(hist))

(***************************************************************************)
(* History trimmers.                                                       *)
(***************************************************************************)
trim_history(hist) == LastN(FilterRoles(hist), MAX_HISTORY_MESSAGES)

RECURSIVE KeepFromEnd_no_break(_, _, _, _, _)
\* KeepFromEnd with `continue` in place of `break`
KeepFromEnd_no_break(items, i, total, kept, max_chars) ==
  IF i = 0 THEN kept
  ELSE LET t == total + Len(items[i].content)
       IN IF t > max_chars
          THEN KeepFromEnd_no_break(items, i - 1, total, kept, max_chars)
          ELSE KeepFromEnd_no_break(items, i - 1, t, <<items[i]>> \o kept, max_chars)

RECURSIVE KeepFromEnd_no_reverse(_, _, _, _, _)
\* KeepFromEnd without kept.reverse()
KeepFromEnd_no_reverse(items, i, total, kept, max_chars) ==
  IF i = 0 THEN kept
  ELSE LET t == total + Len(items[i].content)
       IN IF t > max_chars THEN kept
          ELSE KeepFromEnd_no_reverse(items, i - 1, t, Append(kept, items[i]), max_chars)

RECURSIVE KeepFromEnd(_, _, _, _, _)
\* the loop over reversed(items): i is the index of the entry looked at,
\* total the running sum before it, kept the entries kept so far (held in
\* chronological order, which is what kept.reverse() yields at the end)
KeepFromEnd(items, i, total, kept, max_chars) ==
  IF i = 0 THEN kept
  ELSE LET t == total + Len(items[i].content)
       IN IF t > max_chars THEN kept
          ELSE KeepFromEnd(items, i - 1, t, <<items[i]>> \o kept, max_chars)

trim_history_by_chars(hist, max_chars) ==
  LET items == FilterRoles(hist)
  IN KeepFromEnd(items, Len(items), 0, <<>>, max_chars)

\* build_messages, given state.history
build_messages(history, user_text) ==
  <<Msg("system", SYSTEM_PROMPT)>>
    \o trim_history_by_chars(trim_history(history), MAX_CONTEXT_CHARS)
    \o <<Msg("user", user_text)>>

(***************************************************************************)
(* ChatState and the rate limiter.                                         *)
(***************************************************************************)
\* ChatState(): last_seen's default_factory is time.time
ChatState(T) ==
  [model |-> DEFAULT_MODEL, history |-> <<>>, hits |-> <<>>, last_seen |-> T]

\* RateLimiter(window_sec, max_hits)
RateLimiter(window_sec, max_hits) ==
  [window_sec |-> window_sec, max_hits |-> max_hits]

\* allow with the limit tested by > instead of >=
allow_off_by_one(self, st, T) ==
  LET cutoff == T - self.window_sec
      Recent(t) == t >= cutoff
      hits1 == SelectSeq(st.hits, Recent)
  IN IF Len(hits1) > self.max_hits
     THEN [st |-> [st EXCEPT !.hits = hits1], ok |-> FALSE]
     ELSE [st |-> [st EXCEPT !.hits = Append(hits1, T)], ok |-> TRUE]

\* self.allow(st) at time T: the new value of st and the result
allow(self, st, T) ==
  LET cutoff == T - self.window_sec
      Recent(t) == t >= cutoff
      hits1 == SelectSeq(st.hits, Recent)
  IN IF Len(hits1) >= self.max_hits
     THEN [st |-> [st EXCEPT !.hits = hits1], ok |-> FALSE]
     ELSE [st |-> [st EXCEPT !.hits = Append(hits1, T)], ok |-> TRUE]

(***************************************************************************)
(* The store.  `states` (a dict, which keeps insertion order) is a         *)
(* sequence of entries [cid, obj]; obj refers to a ChatState object of the *)
(* heap.  An object's name is <<c, g>>: c the chat id it was created for,  *)
(* g the least number no live object of c bears, so that two objects that  *)
(* exist at the same time never share a name.                              *)
(* `locks` maps a chat id to its asyncio.Lock.                             *)
(***************************************************************************)
NoRef == <<0, 0>>

\* rl = RateLimiter(WINDOW_SEC, MAX_MSG_PER_WINDOW)
rl == RateLimiter(WINDOW_SEC, MAX_MSG_PER_WINDOW)

Keys(sts) == { sts[i].cid : i \in 1..Len(sts) }
Has(sts, c) == c \in Keys(sts)
Ref(sts, c) == sts[CHOOSE i \in 1..Len(sts) : sts[i].cid = c].obj

\* states.pop(cid, None) for each cid of S
PopAll(sts, S) ==
  LET Stays(e) == e.cid \notin S
  IN SelectSeq(sts, Stays)

\* the name of a new object for chat c
Fresh(hp, c) ==
  <<c, CHOOSE g \in 1..(Cardinality(DOMAIN hp) + 1) :
         /\ <<c, g>> \notin DOMAIN hp
         /\ \A h \in 1..(g - 1) : <<c, h>> \in DOMAIN hp>>

\* get_state without the test `chat_id not in states`
get_state_always_new(sts, hp, c, T) ==
  LET fresh == Fresh(hp, c)
      sts1 == IF Has(sts, c)
              THEN [i \in DOMAIN sts |->
                      IF sts[i].cid = c THEN [cid |-> c, obj |-> fresh] ELSE sts[i]]
              ELSE Append(sts, [cid |-> c, obj |-> fresh])
  IN [states |-> sts1, heap |-> (fresh :> ChatState(T)) @@ hp, st |-> fresh]

get_state(sts, hp, c, T) ==
  LET isNew == ~Has(sts, c)
      fresh == Fresh(hp, c)
      sts1 == IF isNew THEN Append(sts, [cid |-> c, obj |-> fresh]) ELSE sts
      hp1 == IF isNew THEN (fresh :> ChatState(T)) @@ hp ELSE hp
      st == Ref(sts1, c)
  IN [states |-> sts1,
      heap |-> [hp1 EXCEPT ![st].last_seen = T],
      st |-> st]

\* asyncio.Lock(): not locked, no waiters; id tells the lock objects created
\* for one chat id apart
NewLock(id) == [id |-> id, locked |-> FALSE, waiters |-> <<>>]

\* get_lock without the test `lock is None`
get_lock_always_new(lks, c) ==
  LET id == IF c \in DOMAIN lks THEN lks[c].id + 1 ELSE 1
  IN [locks |-> (c :> NewLock(id)) @@ lks, lock |-> id]

get_lock(lks, c) ==
  IF c \in DOMAIN lks
  THEN [locks |-> lks, lock |-> lks[c].id]
  ELSE [locks |-> (c :> NewLock(1)) @@ lks, lock |-> 1]

RECURSIVE SortedByLastSeen(_, _)
\* sorted(states.items(), key=lambda kv: kv[1].last_seen): a stable sort,
\* entries of equal last_seen keep their dict order
SortedByLastSeen(items, hp) ==
  IF items = <<>> THEN <<>>
  ELSE LET n == Len(items)
           x == items[n]
           rest == SortedByLastSeen(SubSeq(items, 1, n - 1), hp)
           k == Cardinality({ i \in 1..Len(rest) :
                               hp[rest[i].obj].last_seen <= hp[x.obj].last_seen })
       IN SubSeq(rest, 1, k) \o <<x>> \o SubSeq(rest, k + 1, Len(rest))

\* gc_states with the TTL test <= instead of <
gc_states_inclusive(sts, hp, T) ==
  LET cutoff == T - STATE_TTL_SEC
      stale_ids == { sts[i].cid : i \in { j \in 1..Len(sts) :
                                          hp[sts[j].obj].last_seen <= cutoff } }
      sts1 == PopAll(sts, stale_ids)
      extra == Len(sts1) - MAX_CHAT_STATES
      sorted == SortedByLastSeen(sts1, hp)
      oldest == IF extra > 0 THEN { sorted[i].cid : i \in 1..extra } ELSE {}
  IN [states |-> PopAll(sts1, oldest),
      removed |-> Cardinality(stale_ids) + Cardinality(oldest)]

\* gc_states(now=T): the new dict and the returned count
gc_states(sts, hp, T) ==
  LET cutoff == T - STATE_TTL_SEC
      stale_ids == { sts[i].cid : i \in { j \in 1..Len(sts) :
                                          hp[sts[j].obj].last_seen < cutoff } }
      sts1 == PopAll(sts, stale_ids)
      extra == Len(sts1) - MAX_CHAT_STATES
      sorted == SortedByLastSeen(sts1, hp)
      oldest == IF extra > 0 THEN { sorted[i].cid : i \in 1..extra } ELSE {}
  IN [states |-> PopAll(sts1, oldest),
      removed |-> Cardinality(stale_ids) + Cardinality(oldest)]

(***************************************************************************)
(* State.                                                                  *)
(***************************************************************************)
VARIABLES
  now,        \* time.time()
  states,     \* the dict states, in insertion order
  heap,       \* the ChatState objects that are still referenced
  locks,      \* the dict locks
  task,       \* the on_text tasks: position and local variables
  gcSleep,    \* gc_loop: the time left of its asyncio.sleep
  removed,    \* the count returned by the last call of gc_states that
              \* SpecGC made (-1: none yet)
  gcIn,       \* the dict, the heap and the time that call was made with
  rlCalls,    \* the limiter and the calls of allow that SpecRL made
  cmdIn,      \* the command that SpecCmd handles, and the dict, the heap and
              \* the time it arrived at
  trim,       \* the history and the budget that SpecTrim trims, and the
              \* lists returned
  session,    \* ollama.session: "none", "open" or "closed"
  gc_task,    \* _gc_task and the task it refers to: pc is "none" (_gc_task
              \* is None), "ready" (created, not yet run), "sleep" (in
              \* asyncio.sleep) or "done"; cancel tells whether cancel()
              \* was called on it
  shut,       \* the position of on_shutdown: "no", "closed" (ollama.close()
              \* awaited), "awaiting" (in `await _gc_task`), "done"
  gcLog,      \* the outcomes of the sweeps of gc_loop in SpecLife, in order:
              \* "ok" or "err"
  msgs,       \* text messages received so far
  cmds        \* commands received so far

\* the variables that only the specifications of single operations change
\* the variables of the specifications that come after SpecRL
life == <<session, gc_task, shut, gcLog>>
\* on_startup is over, on_shutdown has not begun
LifeInit ==
  /\ session = "open"
  /\ gc_task = [pc |-> "sleep", cancel |-> FALSE]
  /\ shut = "no"
  /\ gcLog = <<>>

ext == <<cmdIn, trim, life>>
ExtInit == cmdIn = <<>> /\ trim = <<>> /\ LifeInit

aux == <<removed, gcIn, rlCalls, ext>>

vars == <<now, states, heap, locks, task, gcSleep, msgs, cmds, aux>>

Idle ==
  [pc |-> "idle", chat_id |-> 0, text |-> <<>>, lock |-> 0, state |-> NoRef,
   user_text |-> <<>>, messages |-> <<>>, model |-> "", stage |-> "",
   attempt |-> 0, answer |-> <<>>, reply |-> <<>>, touched |-> {},
   http |-> <<>>]

\* what a turn's calls of OllamaClient.chat did, in order: call is "primary"
\* or "fallback"; ev is "post" (session.post is entered), "fail" (the
\* attempt ends in the except clause), "ok" (chat returns) or "raise" (chat
\* raises after its loop).  A task's `http` is the list of these.
Ev(call, ev) == [call |-> call, ev |-> ev]

\* the positions of on_text inside `async with get_lock(chat_id)`
InLock == {"answer_rate", "answer_long", "typing", "http", "answer_ok",
           "answer_err"}
\* the positions suspended in `await safe_answer(...)`
Answering == {"answer_rate", "answer_long", "answer_ok", "answer_err"}

Fields == {"model", "history", "hits", "last_seen"}
\* the fields in which two values of a ChatState differ.  A task's `touched`
\* collects the fields its own steps changed in the ChatState it works on,
\* "created" when its get_state inserted the entry and "swept" when its
\* proactive sweep removed entries.
Diff(old, new) == { f \in Fields : old[f] # new[f] }

\* the objects still referenced: by the dict or by a task's local `state`
Live(sts, tk) ==
  ({ sts[i].obj : i \in 1..Len(sts) } \cup { tk[t].state : t \in Tasks })
    \ {NoRef}
Collect(hp, sts, tk) == [ o \in Live(sts, tk) |-> hp[o] ]

\* release that leaves the lock locked
release_keeps_locked(lks, c) == lks

\* Lock.release(): the first waiter, if any, is woken and takes the lock
\* when it runs
release(lks, c) == [lks EXCEPT ![c].locked = FALSE]

Init ==
  /\ now = 0
  /\ states = <<>>
  /\ heap = <<>>
  /\ locks = <<>>
  /\ task = [t \in Tasks |-> Idle]
  /\ gcSleep = 0
  /\ removed = -1
  /\ gcIn = <<>>
  /\ rlCalls = <<>>
  /\ ExtInit
  /\ msgs = 0
  /\ cmds = 0

\* the clock advances
Tick ==
  /\ now < MaxTime
  /\ now' = now + 1
  /\ gcSleep' = IF gcSleep > 0 THEN gcSleep - 1 ELSE 0
  /\ UNCHANGED <<states, heap, locks, task, aux, msgs, cmds>>

\* store_turn without the two trims
store_turn_untrimmed(history, user_text, answer) ==
  history \o <<Msg("user", user_text), Msg("assistant", answer)>>

\* store_turn without the user's message
store_turn_no_user(history, user_text, answer) ==
  trim_history_by_chars(
    trim_history(history \o <<Msg("assistant", answer)>>), MAX_CONTEXT_CHARS)

\* on_text lines 342-346: the history after a successful turn
store_turn(history, user_text, answer) ==
  trim_history_by_chars(
    trim_history(history \o <<Msg("user", user_text), Msg("assistant", answer)>>),
    MAX_CONTEXT_CHARS)

\* on_text line 348: the text sent for a successful turn
answer_text(answer) ==
  Prefix(IF answer = <<>> THEN EMPTY_ANSWER_MSG ELSE answer, MAX_REPLY_CHARS)

\* Enter without the test `len(user_text) > MAX_INPUT_CHARS`
Enter_no_length_check(t, c, txt, lk, lks) ==
  LET gs == get_state(states, heap, c, now)
      swept == IF Len(gs.states) > MAX_CHAT_STATES
               THEN gc_states(gs.states, gs.heap, now).states
               ELSE gs.states
      al == allow(rl, gs.heap[gs.st], now)
      hp == [gs.heap EXCEPT ![gs.st] = al.st]
      user_text == Strip(txt)
      before == IF Has(states, c) THEN heap[gs.st] ELSE ChatState(now)
      me == [Idle EXCEPT !.chat_id = c, !.text = txt, !.lock = lk,
                         !.state = gs.st,
                         !.touched = Diff(before, hp[gs.st])
                                     \cup (IF Has(states, c) THEN {} ELSE {"created"})
                                     \cup (IF swept = gs.states THEN {} ELSE {"swept"})]
      returns == al.ok /\ user_text = <<>>
      tk == [task EXCEPT ![t] =
               IF ~al.ok THEN [me EXCEPT !.pc = "answer_rate", !.reply = RATE_MSG]
               ELSE IF user_text = <<>> THEN Idle
               ELSE [me EXCEPT !.pc = "typing", !.user_text = user_text]]
  IN /\ states' = swept
     /\ task' = tk
     /\ heap' = Collect(hp, swept, tk)
     /\ locks' = IF returns THEN release(lks, c) ELSE lks

(***************************************************************************)
(* on_text, from entering the lock to its first suspension: get_state, the *)
(* proactive sweep, the rate limiter, the input checks.  lks is the dict   *)
(* locks with the chat's lock taken by task t; lk the lock t obtained.     *)
(***************************************************************************)
Enter(t, c, txt, lk, lks) ==
  LET gs == get_state(states, heap, c, now)
      swept == IF Len(gs.states) > MAX_CHAT_STATES
               THEN gc_states(gs.states, gs.heap, now).states
               ELSE gs.states
      al == allow(rl, gs.heap[gs.st], now)
      hp == [gs.heap EXCEPT ![gs.st] = al.st]
      user_text == Strip(txt)
      before == IF Has(states, c) THEN heap[gs.st] ELSE ChatState(now)
      me == [Idle EXCEPT !.chat_id = c, !.text = txt, !.lock = lk,
                         !.state = gs.st,
                         !.touched = Diff(before, hp[gs.st])
                                     \cup (IF Has(states, c) THEN {} ELSE {"created"})
                                     \cup (IF swept = gs.states THEN {} ELSE {"swept"})]
      returns == al.ok /\ user_text = <<>>
      tk == [task EXCEPT ![t] =
               IF ~al.ok THEN [me EXCEPT !.pc = "answer_rate", !.reply = RATE_MSG]
               ELSE IF user_text = <<>> THEN Idle
               ELSE IF Len(user_text) > MAX_INPUT_CHARS
                    THEN [me EXCEPT !.pc = "answer_long", !.user_text = user_text,
                                    !.reply = LONG_MSG]
               ELSE [me EXCEPT !.pc = "typing", !.user_text = user_text]]
  IN /\ states' = swept
     /\ task' = tk
     /\ heap' = Collect(hp, swept, tk)
     /\ locks' = IF returns THEN release(lks, c) ELSE lks

\* a text message for chat c arrives and task t runs on_text for it up to
\* its first suspension: waiting for the lock, or inside the lock
OnText(t, c, txt) ==
  /\ task[t].pc = "idle"
  \* the tasks are interchangeable: the message goes to the first idle one
  /\ \A u \in Tasks : u < t => task[u].pc # "idle"
  /\ msgs < MaxMsgs
  /\ msgs' = msgs + 1
  /\ LET gl == get_lock(locks, c)
         L == gl.locks[c]
     IN /\ IF ~L.locked /\ L.waiters = <<>>
           THEN Enter(t, c, txt, gl.lock, [gl.locks EXCEPT ![c].locked = TRUE])
           ELSE /\ locks' = [gl.locks EXCEPT ![c].waiters = Append(@, t)]
                /\ task' = [task EXCEPT ![t] =
                              [Idle EXCEPT !.pc = "wait_lock", !.chat_id = c,
                                           !.text = txt, !.lock = gl.lock]]
                /\ UNCHANGED <<states, heap>>
  /\ UNCHANGED <<now, gcSleep, aux, cmds>>

\* the lock was released and t is its first waiter: t takes it and runs on
LockAcquired(t) ==
  /\ task[t].pc = "wait_lock"
  /\ LET c == task[t].chat_id
         L == locks[c]
     IN /\ ~L.locked
        /\ L.waiters # <<>> /\ Head(L.waiters) = t
        /\ Enter(t, c, task[t].text, task[t].lock,
                 [locks EXCEPT ![c].locked = TRUE, ![c].waiters = Tail(@)])
  /\ UNCHANGED <<now, gcSleep, aux, msgs, cmds>>

(***************************************************************************)
(* on_text, the backend call.  OllamaClient.chat posts at most twice, and  *)
(* sleeps after each failed attempt; on_text calls it for state.model and, *)
(* when that raises, for FALLBACK_MODEL with the same messages.  A task at *)
(* "http" has a post in flight: attempt `attempt` of the call for `model`. *)
(***************************************************************************)
\* message.chat.do("typing") is over: build_messages, then the first post
\* of ollama.chat(state.model, messages)
SendRequest(t) ==
  /\ task[t].pc = "typing"
  /\ task' = [task EXCEPT ![t].pc = "http",
                          ![t].messages =
                             build_messages(heap[task[t].state].history,
                                            task[t].user_text),
                          ![t].model = heap[task[t].state].model,
                          ![t].stage = "primary",
                          ![t].attempt = 1,
                          ![t].http = <<Ev("primary", "post")>>]
  /\ UNCHANGED <<now, states, heap, locks, gcSleep, aux, msgs, cmds>>

\* the post is answered with a body whose message.content is raw: chat
\* returns it stripped, on_text stores the turn and sends the answer
HttpOk(t, raw) ==
  /\ task[t].pc = "http"
  /\ LET st == task[t].state
         answer == Strip(raw)
         new == [heap[st] EXCEPT
                   !.history = store_turn(@, task[t].user_text, answer)]
     IN /\ heap' = [heap EXCEPT ![st] = new]
        /\ task' = [task EXCEPT ![t].pc = "answer_ok",
                                ![t].http = Append(@, Ev(task[t].stage, "ok")),
                                ![t].answer = answer,
                                ![t].reply = answer_text(answer),
                                ![t].touched = @ \cup Diff(heap[st], new)]
  /\ UNCHANGED <<now, states, locks, gcSleep, aux, msgs, cmds>>

\* HttpFail that, when giving up, has stored the user's message
HttpFail_keeps_user(t) ==
  /\ task[t].pc = "http"
  /\ LET st == task[t].state
         gives_up == task[t].attempt = 2 /\ task[t].stage = "fallback"
         new == IF gives_up
                THEN [heap[st] EXCEPT
                        !.history = Append(@, Msg("user", task[t].user_text))]
                ELSE heap[st]
     IN /\ heap' = [heap EXCEPT ![st] = new]
        /\ task' = [task EXCEPT ![t] =
                      IF task[t].attempt = 1
                      THEN [@ EXCEPT !.attempt = 2,
                                     !.http = @ \o <<Ev(task[t].stage, "fail"),
                                                     Ev(task[t].stage, "post")>>]
                      ELSE IF task[t].stage = "primary"
                      THEN [@ EXCEPT !.stage = "fallback",
                                     !.model = FALLBACK_MODEL, !.attempt = 1,
                                     !.http = @ \o <<Ev("primary", "fail"),
                                                     Ev("primary", "raise"),
                                                     Ev("fallback", "post")>>]
                      ELSE [@ EXCEPT !.pc = "answer_err", !.reply = ERROR_MSG,
                                     !.http = @ \o <<Ev("fallback", "fail"),
                                                     Ev("fallback", "raise")>>,
                                     !.touched = @ \cup Diff(heap[st], new)]]
  /\ UNCHANGED <<now, states, locks, gcSleep, aux, msgs, cmds>>

\* HttpFail where chat makes one attempt only
HttpFail_single_attempt(t) ==
  /\ task[t].pc = "http"
  /\ task' = [task EXCEPT ![t] =
                IF task[t].stage = "primary"
                THEN [@ EXCEPT !.stage = "fallback", !.model = FALLBACK_MODEL,
                               !.attempt = 1,
                               !.http = @ \o <<Ev("primary", "fail"),
                                               Ev("primary", "raise"),
                                               Ev("fallback", "post")>>]
                ELSE [@ EXCEPT !.pc = "answer_err", !.reply = ERROR_MSG,
                               !.http = @ \o <<Ev("fallback", "fail"),
                                               Ev("fallback", "raise")>>]]
  /\ UNCHANGED <<now, states, heap, locks, gcSleep, aux, msgs, cmds>>

\* the post fails (status >= 400, transport error, bad body).  chat sleeps
\* and posts again; or, after its second attempt, sleeps and raises, and
\* on_text calls the fallback model or gives up.  What follows the sleep
\* reads and writes nothing another task can change, so the step runs on
\* to the next post.
HttpFail(t) ==
  /\ task[t].pc = "http"
  /\ task' = [task EXCEPT ![t] =
                IF task[t].attempt = 1
                THEN [@ EXCEPT !.attempt = 2,
                               !.http = @ \o <<Ev(task[t].stage, "fail"),
                                               Ev(task[t].stage, "post")>>]
                ELSE IF task[t].stage = "primary"
                THEN [@ EXCEPT !.stage = "fallback", !.model = FALLBACK_MODEL,
                               !.attempt = 1,
                               !.http = @ \o <<Ev("primary", "fail"),
                                               Ev("primary", "raise"),
                                               Ev("fallback", "post")>>]
                ELSE [@ EXCEPT !.pc = "answer_err", !.reply = ERROR_MSG,
                               !.http = @ \o <<Ev("fallback", "fail"),
                                               Ev("fallback", "raise")>>]]
  /\ UNCHANGED <<now, states, heap, locks, gcSleep, aux, msgs, cmds>>

\* safe_answer is over: on_text returns, leaving `async with`
AnswerDone(t) ==
  /\ task[t].pc \in Answering
  /\ locks' = release(locks, task[t].chat_id)
  /\ task' = [task EXCEPT ![t] = Idle]
  /\ heap' = Collect(heap, states, task')
  /\ UNCHANGED <<now, states, gcSleep, aux, msgs, cmds>>

(***************************************************************************)
(* The commands.  Each changes the state before its only suspension (the   *)
(* reply), so each is one step.                                            *)
(***************************************************************************)
Command(c, gs, st) ==
  /\ cmds < MaxCmds
  /\ cmds' = cmds + 1
  /\ states' = gs.states
  /\ heap' = [gs.heap EXCEPT ![gs.st] = st]
  /\ UNCHANGED <<now, locks, task, gcSleep, aux, msgs>>

cmd_start(c) ==
  LET gs == get_state(states, heap, c, now)
  IN Command(c, gs, [gs.heap[gs.st] EXCEPT !.history = <<>>,
                                           !.model = DEFAULT_MODEL])

\* cmd_reset that also sets the model, as cmd_start does
cmd_reset_sets_model(c) ==
  LET gs == get_state(states, heap, c, now)
  IN Command(c, gs, [gs.heap[gs.st] EXCEPT !.history = <<>>,
                                           !.model = DEFAULT_MODEL])

cmd_reset(c) ==
  LET gs == get_state(states, heap, c, now)
  IN Command(c, gs, [gs.heap[gs.st] EXCEPT !.history = <<>>])

\* "/model" (name = "") or "/model <name>"
cmd_model(c, name) ==
  LET gs == get_state(states, heap, c, now)
  IN Command(c, gs, IF name = "" THEN gs.heap[gs.st]
                    ELSE [gs.heap[gs.st] EXCEPT !.model = name])

(***************************************************************************)
(* gc_loop: a sweep, then asyncio.sleep(STATE_GC_INTERVAL_SEC).            *)
(***************************************************************************)
GcSweep ==
  /\ gcSleep = 0
  /\ LET r == gc_states(states, heap, now)
     IN /\ states' = r.states
        /\ heap' = Collect(heap, r.states, task)
  /\ gcSleep' = STATE_GC_INTERVAL_SEC
  /\ UNCHANGED <<now, locks, task, aux, msgs, cmds>>

Next ==
  \/ Tick
  \/ \E t \in Tasks, c \in Chats, txt \in UserTexts : OnText(t, c, txt)
  \/ \E t \in Tasks : LockAcquired(t)
  \/ \E t \in Tasks : SendRequest(t)
  \/ \E t \in Tasks, raw \in RawAnswers : HttpOk(t, raw)
  \/ \E t \in Tasks : HttpFail(t)
  \/ \E t \in Tasks : AnswerDone(t)
  \/ \E c \in Chats : cmd_start(c)
  \/ \E c \in Chats : cmd_reset(c)
  \/ \E c \in Chats, name \in ModelNames \cup {""} : cmd_model(c, name)
  \/ GcSweep

Spec == Init /\ [][Next]_vars

(***************************************************************************)
(* Properties.                                                             *)
(***************************************************************************)
\* the on_text tasks of chat c that are inside `async with get_lock(c)`
Holders(c) == { t \in Tasks : task[t].chat_id = c /\ task[t].pc \in InLock }

\* C1: for every chat id, at most one on_text task is between acquiring and
\* releasing the chat's lock (suspended on the backend call included),
\* whatever handlers, commands and sweeps interleave.
C1_MutualExclusion == \A c \in Chats : Cardinality(Holders(c)) <= 1

\* C1's case: one task of a chat waits on the backend inside the lock while
\* another task of the same chat waits for the lock.
C1_Witness ==
  \E t, u \in Tasks :
    /\ task[t].pc = "http"
    /\ task[u].pc = "wait_lock"
    /\ task[u].chat_id = task[t].chat_id

\* C2 (as claimed): no command step changes the model or the history of a
\* ChatState of chat c while an on_text task of c is inside the lock.
C2_CommandsHoldLock ==
  [][\A c \in Chats :
       (cmds' # cmds /\ Holders(c) # {})
         => \A o \in DOMAIN heap :
              o[1] = c => /\ o \in DOMAIN heap'
                          /\ heap'[o].model = heap[o].model
                          /\ heap'[o].history = heap[o].history]_vars

\* C3 (as claimed): wherever another task can run, the dict states has at
\* most MAX_CHAT_STATES entries.
C3_StoreSizeBounded == Len(states) <= MAX_CHAT_STATES

\* C4 (as claimed): whenever an entry leaves the dict states, the lock of
\* its chat id is not in the dict locks afterwards.
C4_SweepRemovesLock ==
  [][\A c \in Keys(states) \ Keys(states') : c \notin DOMAIN locks']_vars

\* what SpecGC's call of gc_states was made with, and what it did
GcSeen(c) == gcIn.heap[Ref(gcIn.states, c)].last_seen
GcStale == { c \in Keys(gcIn.states) : GcSeen(c) < gcIn.now - STATE_TTL_SEC }
GcRest == Keys(gcIn.states) \ GcStale
GcGone == Keys(gcIn.states) \ Keys(states)
GcByCapacity == GcGone \ GcStale

\* C5: gc_states(T) removes exactly the entries with last_seen < T - ttl
\* (last_seen = T - ttl stays); then, if more than MAX_CHAT_STATES remain,
\* exactly as many as exceed it, none of them seen later than an entry that
\* is kept; the entries kept keep their order, and the count returned is the
\* number of entries removed.
C5_GcSweep ==
  removed >= 0 =>
    /\ Keys(states) \subseteq Keys(gcIn.states)
    /\ GcStale \subseteq GcGone
    /\ Cardinality(GcRest) <= MAX_CHAT_STATES => GcByCapacity = {}
    /\ Cardinality(GcRest) > MAX_CHAT_STATES =>
         /\ Cardinality(GcByCapacity) = Cardinality(GcRest) - MAX_CHAT_STATES
         /\ \A g \in GcByCapacity, k \in Keys(states) : GcSeen(g) <= GcSeen(k)
    /\ states = PopAll(gcIn.states, GcGone)
    /\ removed = Cardinality(GcGone)

\* C5's case: one sweep removed an entry by TTL and another by capacity,
\* and kept an entry whose last_seen is exactly T - ttl.
C5_Witness ==
  /\ removed >= 0
  /\ GcStale # {}
  /\ GcByCapacity # {}
  /\ \E k \in Keys(states) : GcSeen(k) = gcIn.now - STATE_TTL_SEC

\* the calls of allow that returned true at a time in [w, w + window_sec]
Accepted(w) ==
  { k \in 1..Len(rlCalls.calls) :
      /\ rlCalls.calls[k].ok
      /\ rlCalls.calls[k].t >= w
      /\ rlCalls.calls[k].t <= w + rlCalls.rl.window_sec }

\* C6: of the calls of allow on one ChatState, at times that never
\* decrease, at most max_hits return true within any window of window_sec.
C6_RateLimit ==
  \A w \in 0..MaxRlTime : Cardinality(Accepted(w)) <= rlCalls.rl.max_hits

\* C6's case: a call was accepted, a later one refused, a still later one
\* accepted again.
C6_Witness ==
  \E i, j, k \in 1..Len(rlCalls.calls) :
    /\ i < j /\ j < k
    /\ rlCalls.calls[i].ok
    /\ ~rlCalls.calls[j].ok
    /\ rlCalls.calls[k].ok

\* C7: wherever another task can run, every ChatState's history has at most
\* MAX_HISTORY_MESSAGES entries and at most MAX_CONTEXT_CHARS characters of
\* content.
C7_HistoryBounded ==
  \A o \in DOMAIN heap :
    /\ Len(heap[o].history) <= MAX_HISTORY_MESSAGES
    /\ SumContent(heap[o].history) <= MAX_CONTEXT_CHARS

\* C7's case: a successful turn whose pair exceeds the character budget has
\* been stored, cut down to the answer.
C7_Witness ==
  \E t \in Tasks :
    /\ task[t].pc = "answer_ok"
    /\ Len(task[t].user_text) + Len(task[t].answer) > MAX_CONTEXT_CHARS
    /\ heap[task[t].state].history = <<Msg("assistant", task[t].answer)>>

\* the ChatState objects of chat c that a step creates
Created(c) == { o \in DOMAIN heap' \ DOMAIN heap : o[1] = c }

ByFallback == { t \in Tasks : task[t].pc = "answer_ok" /\ task[t].stage = "fallback" }

\* C9 (as claimed): when the fallback model answers after the primary call
\* failed twice, the reply is the fallback's answer and the turn has not
\* changed state.model.
C9_ReplyIsAnswer ==
  \A t \in ByFallback :
    /\ task[t].reply = task[t].answer
    /\ "model" \notin task[t].touched

\* C9 (amended): the reply is the fallback's answer cut to MAX_REPLY_CHARS,
\* or the placeholder when the answer is empty; the turn has not changed
\* state.model; and the step that stores the turn sets the history to the
\* old history plus the turn's user and assistant messages, trimmed.
C9_FallbackTurn ==
  /\ [](\A t \in ByFallback :
          /\ task[t].reply =
               Prefix(IF task[t].answer = <<>> THEN EMPTY_ANSWER_MSG
                      ELSE task[t].answer, MAX_REPLY_CHARS)
          /\ "model" \notin task[t].touched)
  /\ [][\A t \in Tasks :
          (task[t].pc = "http" /\ task[t].stage = "fallback"
             /\ task'[t].pc = "answer_ok")
            => LET st == task[t].state
               IN /\ task'[t].answer \in { Strip(r) : r \in RawAnswers }
                  /\ heap'[st].model = heap[st].model
                  /\ heap'[st].history =
                       trim_history_by_chars(
                         trim_history(
                           heap[st].history
                             \o <<Msg("user", task[t].user_text),
                                  Msg("assistant", task'[t].answer)>>),
                         MAX_CONTEXT_CHARS)]_vars

\* C9's case: the fallback model answered, for a chat whose model a command
\* had set, and the answer went out as it was.
C9_Witness ==
  \E t \in ByFallback :
    /\ task[t].reply = task[t].answer
    /\ heap[task[t].state].model \in ModelNames

\* C10 (as claimed): when the primary and the fallback call both fail, the
\* reply is the error message and the turn has changed nothing of the state.
C10_StateUntouched ==
  \A t \in Tasks :
    task[t].pc = "answer_err" =>
      /\ task[t].reply = ERROR_MSG
      /\ task[t].touched = {}

\* C10 (amended): the reply is the error message and the turn has changed
\* neither the history nor the model; last_seen and hits it has changed.
C10_FailedTurn ==
  \A t \in Tasks :
    task[t].pc = "answer_err" =>
      /\ task[t].reply = ERROR_MSG
      /\ task[t].touched \cap {"history", "model"} = {}

\* C10's case: both calls failed in a chat that has a history.
C10_Witness ==
  \E t \in Tasks :
    /\ task[t].pc = "answer_err"
    /\ heap[task[t].state].history # <<>>
    /\ "hits" \in task[t].touched

\* task t has run on_text from taking the lock to its first suspension
\* inside `async with`
Entered(t) == task[t].pc \in {"idle", "wait_lock"} /\ task'[t].pc \in InLock

\* C11 (as claimed): a text message longer than MAX_INPUT_CHARS that is not
\* rate-limited gets the length-limit message, causes no backend call and
\* leaves the number of entries of the dict states and the history of the
\* conversation unchanged.
C11_StoreSizeUnchanged ==
  [][\A t \in Tasks :
       (Entered(t) /\ task'[t].pc # "answer_rate"
          /\ Len(task'[t].text) > MAX_INPUT_CHARS)
         => /\ task'[t].pc = "answer_long"
            /\ task'[t].reply = LONG_MSG
            /\ task'[t].http = <<>>
            /\ Len(states') = Len(states)
            /\ "history" \notin task'[t].touched]_vars

\* C11 (amended): a text message that is not rate-limited and whose text is
\* longer than MAX_INPUT_CHARS once stripped gets the length-limit message,
\* causes no backend call and leaves the history of its ChatState unchanged.
\* The dict states is unchanged when it has the chat's entry and at most
\* MAX_CHAT_STATES entries; it gains the chat's entry when it does not have
\* it and has fewer than MAX_CHAT_STATES; otherwise the proactive sweep has
\* run and it has at most MAX_CHAT_STATES entries.
C11_TooLong ==
  /\ [](\A t \in Tasks :
          task[t].pc = "answer_long" =>
            /\ task[t].reply = LONG_MSG
            /\ task[t].http = <<>>
            /\ "history" \notin task[t].touched)
  /\ [][\A t \in Tasks :
          (Entered(t) /\ task'[t].pc # "answer_rate"
             /\ Len(Strip(task'[t].text)) > MAX_INPUT_CHARS)
            => LET c == task'[t].chat_id
               IN /\ task'[t].pc = "answer_long"
                  /\ (Has(states, c) /\ Len(states) <= MAX_CHAT_STATES)
                       => Keys(states') = Keys(states) /\ Len(states') = Len(states)
                  /\ (~Has(states, c) /\ Len(states) < MAX_CHAT_STATES)
                       => states' = Append(states, [cid |-> c, obj |-> task'[t].state])
                  /\ Len(states') <= Len(states) + 1
                  /\ Len(states') <= MAX_CHAT_STATES]_vars

\* C11's case: the first message of a conversation is too long; its entry
\* has been added to the dict.
C11_Witness ==
  \E t \in Tasks :
    /\ task[t].pc = "answer_long"
    /\ "created" \in task[t].touched
    /\ Has(states, task[t].chat_id)
    /\ task[t].state = Ref(states, task[t].chat_id)

Calls == {"primary", "fallback"}
\* the positions in the list h of the events ev of the call k
At(h, k, ev) == { i \in 1..Len(h) : h[i] = Ev(k, ev) }

\* C12: one call of OllamaClient.chat posts at most twice, the second time
\* right after its first attempt has failed, and raises only after two
\* failed attempts; a turn posts at most four times, and posts for
\* FALLBACK_MODEL only after the call for the primary model has raised.
C12_HttpRequests ==
  \A t \in Tasks :
    LET h == task[t].http
    IN /\ \A k \in Calls :
            /\ Cardinality(At(h, k, "post")) <= 2
            /\ \A i, j \in At(h, k, "post") :
                 i < j => /\ h[j - 1] = Ev(k, "fail")
                          /\ At(h, k, "fail") \cap (i + 1)..(j - 1) = {j - 1}
            /\ \A i \in At(h, k, "raise") :
                 /\ Cardinality({ j \in At(h, k, "post") : j < i }) = 2
                 /\ Cardinality({ j \in At(h, k, "fail") : j < i }) = 2
            /\ \A i \in At(h, k, "ok") \cup At(h, k, "fail") :
                 i > 1 /\ h[i - 1] = Ev(k, "post")
       /\ Cardinality(At(h, "primary", "post") \cup At(h, "fallback", "post")) <= 4
       /\ \A i \in At(h, "fallback", "post") :
            \E j \in At(h, "primary", "raise") : j < i
       /\ task[t].pc = "http" =>
            /\ h[Len(h)] = Ev(task[t].stage, "post")
            /\ task[t].stage = "fallback" => task[t].model = FALLBACK_MODEL

\* C12's case: a turn has made its four posts, and the last one failed.
C12_Witness ==
  \E t \in Tasks :
    /\ task[t].pc = "answer_err"
    /\ Cardinality(At(task[t].http, "primary", "post")) = 2
    /\ Cardinality(At(task[t].http, "fallback", "post")) = 2

\* the command of SpecCmd has been handled and was "/reset"
ResetDone == cmdIn # <<>> /\ cmdIn.kind = "reset" /\ cmds = 1
\* whether its chat had an entry, and the ChatState it had
ResetHad == Has(cmdIn.states, cmdIn.chat)
ResetOld == cmdIn.heap[Ref(cmdIn.states, cmdIn.chat)]

\* C13: after "/reset" the chat's history is empty and its model is the one
\* it had (DEFAULT_MODEL for a chat that had no entry); the dict has the
\* chat's entry, the same object as before, and every entry it had; and
\* last_seen is the time of the command.
C13_Reset ==
  ResetDone =>
    LET c == cmdIn.chat
    IN /\ Has(states, c)
       /\ heap[Ref(states, c)].history = <<>>
       /\ heap[Ref(states, c)].model =
            (IF ResetHad THEN ResetOld.model ELSE DEFAULT_MODEL)
       /\ heap[Ref(states, c)].last_seen = cmdIn.now
       /\ ResetHad => /\ Ref(states, c) = Ref(cmdIn.states, c)
                      /\ states = cmdIn.states
       /\ Keys(states) = Keys(cmdIn.states) \cup {c}

\* C13's case: "/reset" for a chat that had a history, a model set by
\* "/model" and an earlier last_seen.
C13_Witness ==
  /\ ResetDone
  /\ ResetHad
  /\ ResetOld.history # <<>>
  /\ ResetOld.model \in ModelNames
  /\ ResetOld.last_seen < cmdIn.now

\* the messages of h with role user or assistant, in the order of h
Restricted(h) == SelectSeq(h, LAMBDA m : m.role \in {"user", "assistant"})
IsSuffix(s, h) == \E k \in 0..Len(h) : s = SubSeq(h, k + 1, Len(h))
Trimmed == trim # <<>> /\ trim.calls >= 1

C15_TrimIdempotent ==
  (trim # <<>> /\ trim.calls = 3) =>
    /\ trim.byCount = trim.p
    /\ trim.byChars = trim.p

\* C15's case: trim_history dropped a message, trim_history_by_chars
\* dropped another, and a message is left.
C15_Witness ==
  /\ trim # <<>> /\ trim.calls = 3
  /\ Len(Restricted(trim.h)) > MAX_HISTORY_MESSAGES
  /\ Len(trim.p) < MAX_HISTORY_MESSAGES
  /\ trim.p # <<>>

\* C16 (as claimed): a text message that is not rate-limited and whose text
\* is empty once stripped gets a reply, and causes no backend call.  Stated
\* for the messages that waited for the lock, whose text the task holds.
C16_EmptyInputAnswered ==
  [][\A t \in Tasks :
       (/\ task[t].pc = "wait_lock"
        /\ task'[t].pc \notin {"wait_lock", "answer_rate"}
        /\ Strip(task[t].text) = <<>>)
         => /\ task'[t].pc \in Answering
            /\ task'[t].reply # <<>>
            /\ task'[t].http = <<>>]_vars

\* C19 (as claimed): when a turn has stored its pair and sends the answer,
\* the ChatState it wrote to is the one the dict states holds for its chat.
C19_WritesStoredState ==
  \A t \in Tasks :
    task[t].pc = "answer_ok" =>
      /\ Has(states, task[t].chat_id)
      /\ task[t].state = Ref(states, task[t].chat_id)

(***************************************************************************)
(* SpecGC: gc_states called once, at time `now`, on a dict of up to        *)
(* MaxGcEntries entries in any insertion order, with any last_seen that is *)
(* not in the future.                                                      *)
(***************************************************************************)
GcIds == 1..MaxGcEntries

\* the lists of distinct chat ids
Orders ==
  { o \in UNION { [1..k -> GcIds] : k \in 0..MaxGcEntries } :
      \A i, j \in DOMAIN o : i # j => o[i] # o[j] }

InitGC ==
  /\ now \in Times
  /\ \E order \in Orders, seen \in [GcIds -> Times] :
       /\ \A c \in GcIds : seen[c] <= now
       /\ states = [i \in DOMAIN order |-> [cid |-> order[i], obj |-> <<order[i], 1>>]]
       /\ heap = [o \in { <<order[i], 1>> : i \in DOMAIN order } |->
                    ChatState(seen[o[1]])]
  /\ locks = <<>>
  /\ task = [t \in Tasks |-> Idle]
  /\ gcSleep = 0
  /\ msgs = 0
  /\ cmds = 0
  /\ removed = -1
  /\ gcIn = <<>>
  /\ rlCalls = <<>>
  /\ ExtInit

GcCall ==
  /\ removed = -1
  /\ LET r == gc_states(states, heap, now)
     IN /\ states' = r.states
        /\ removed' = r.removed
        /\ heap' = Collect(heap, r.states, task)
  /\ gcIn' = [states |-> states, heap |-> heap, now |-> now]
  /\ UNCHANGED <<now, locks, task, gcSleep, msgs, cmds, rlCalls, ext>>

NextGC == GcCall

SpecGC == InitGC /\ [][NextGC]_vars

(***************************************************************************)
(* SpecRL: one RateLimiter called again and again on one ChatState, at     *)
(* times that never decrease.                                              *)
(***************************************************************************)
RlObj == <<1, 1>>

InitRL ==
  /\ now = 0
  /\ states = <<[cid |-> 1, obj |-> RlObj]>>
  /\ heap = [o \in {RlObj} |-> ChatState(0)]
  /\ locks = <<>>
  /\ task = [t \in Tasks |-> Idle]
  /\ gcSleep = 0
  /\ msgs = 0
  /\ cmds = 0
  /\ removed = -1
  /\ gcIn = <<>>
  /\ ExtInit
  /\ \E w \in 1..MaxRlWindow, h \in 1..MaxRlHits :
       rlCalls = [rl |-> RateLimiter(w, h), calls |-> <<>>]

RlTick ==
  /\ now < MaxRlTime
  /\ now' = now + 1
  /\ UNCHANGED <<states, heap, locks, task, gcSleep, msgs, cmds, aux>>

RlAllow ==
  /\ Len(rlCalls.calls) < MaxRlCalls
  /\ LET r == allow(rlCalls.rl, heap[RlObj], now)
     IN /\ heap' = [heap EXCEPT ![RlObj] = r.st]
        /\ rlCalls' = [rlCalls EXCEPT !.calls = Append(@, [t |-> now, ok |-> r.ok])]
  /\ UNCHANGED <<now, states, locks, task, gcSleep, msgs, cmds, removed, gcIn, ext>>

NextRL == RlTick \/ RlAllow

SpecRL == InitRL /\ [][NextRL]_vars

(***************************************************************************)
(* SpecCmd: one command handled, at time `now`, for a chat that has an     *)
(* entry or has none, in a dict of any order whose ChatStates have any     *)
(* model, history and last_seen that is not in the future.                 *)
(***************************************************************************)
CmdKinds == {"start", "reset", "model"}
CmdHistories ==
  { <<>>, <<Msg("user", <<"c">>), Msg("assistant", <<"x">>)>> }

InitCmd ==
  /\ now \in Times
  /\ \E order \in { o \in Orders : \A i \in DOMAIN o : o[i] \in Chats },
        model \in [Chats -> {DEFAULT_MODEL} \cup ModelNames],
        hist \in [Chats -> CmdHistories],
        seen \in [Chats -> Times] :
       /\ \A c \in Chats : seen[c] <= now
       /\ states = [i \in DOMAIN order |-> [cid |-> order[i], obj |-> <<order[i], 1>>]]
       /\ heap = [o \in { <<order[i], 1>> : i \in DOMAIN order } |->
                    [ChatState(seen[o[1]]) EXCEPT !.model = model[o[1]],
                                                  !.history = hist[o[1]]]]
  /\ locks = <<>>
  /\ task = [t \in Tasks |-> Idle]
  /\ gcSleep = 0
  /\ msgs = 0
  /\ cmds = 0
  /\ removed = -1
  /\ gcIn = <<>>
  /\ rlCalls = <<>>
  /\ trim = <<>>
  /\ LifeInit
  /\ \E kind \in CmdKinds, c \in Chats, name \in ModelNames \cup {""} :
       /\ kind # "model" => name = ""
       /\ cmdIn = [kind |-> kind, chat |-> c, name |-> name,
                   states |-> states, heap |-> heap, now |-> now]

CmdStart == cmdIn.kind = "start" /\ cmd_start(cmdIn.chat)
CmdReset == cmdIn.kind = "reset" /\ cmd_reset(cmdIn.chat)
CmdModel == cmdIn.kind = "model" /\ cmd_model(cmdIn.chat, cmdIn.name)

NextCmd == CmdStart \/ CmdReset \/ CmdModel

SpecCmd == InitCmd /\ [][NextCmd]_vars

(***************************************************************************)
(* SpecTrim: the two trimmers applied to a list of up to MaxTrimLen        *)
(* messages of any role, for any budget from -1 to MaxBudget (the budget   *)
(* MAX_CONTEXT_CHARS is int(os.getenv(...)), any integer).                 *)
(***************************************************************************)
TrimRoles == {"user", "assistant", "system"}
TrimContents == { <<>>, <<"a">>, <<"b", "b", "b">> }
TrimMessages == { Msg(r, c) : r \in TrimRoles, c \in TrimContents }
TrimHistories == UNION { [1..k -> TrimMessages] : k \in 0..MaxTrimLen }
Budgets == (0 - 1)..MaxBudget

InitTrim ==
  /\ now = 0
  /\ states = <<>>
  /\ heap = <<>>
  /\ locks = <<>>
  /\ task = [t \in Tasks |-> Idle]
  /\ gcSleep = 0
  /\ msgs = 0
  /\ cmds = 0
  /\ removed = -1
  /\ gcIn = <<>>
  /\ rlCalls = <<>>
  /\ cmdIn = <<>>
  /\ LifeInit
  /\ \E h \in TrimHistories, n \in Budgets :
       trim = [h |-> h, n |-> n, calls |-> 0, out |-> <<>>, p |-> <<>>,
               byCount |-> <<>>, byChars |-> <<>>]

\* trim_history_by_chars(h, n)
TrimByChars ==
  /\ trim.calls = 0
  /\ trim' = [trim EXCEPT !.calls = 1,
                          !.out = trim_history_by_chars(trim.h, trim.n)]
  /\ UNCHANGED <<now, states, heap, locks, task, gcSleep, msgs, cmds,
                 removed, gcIn, rlCalls, cmdIn, life>>

\* the two trims as on_text and build_messages chain them
TrimBoth ==
  /\ trim.calls = 1
  /\ trim' = [trim EXCEPT !.calls = 2,
                          !.p = trim_history_by_chars(trim_history(trim.h),
                                                      MAX_CONTEXT_CHARS)]
  /\ UNCHANGED <<now, states, heap, locks, task, gcSleep, msgs, cmds,
                 removed, gcIn, rlCalls, cmdIn, life>>

\* each trim applied to the list the chain returned
TrimAgain ==
  /\ trim.calls = 2
  /\ trim' = [trim EXCEPT !.calls = 3,
                          !.byCount = trim_history(trim.p),
                          !.byChars = trim_history_by_chars(trim.p,
                                                            MAX_CONTEXT_CHARS)]
  /\ UNCHANGED <<now, states, heap, locks, task, gcSleep, msgs, cmds,
                 removed, gcIn, rlCalls, cmdIn, life>>

NextTrim == TrimByChars \/ TrimBoth \/ TrimAgain

SpecTrim == InitTrim /\ [][NextTrim]_vars

(***************************************************************************)
(* SpecLife: on_startup, gc_loop and on_shutdown, with "/start" commands   *)
(* that fill the dict and sweeps that may raise.                           *)
(***************************************************************************)
InitLife ==
  /\ now = 0
  /\ states = <<>>
  /\ heap = <<>>
  /\ locks = <<>>
  /\ task = [t \in Tasks |-> Idle]
  /\ gcSleep = 0
  /\ msgs = 0
  /\ cmds = 0
  /\ removed = -1
  /\ gcIn = <<>>
  /\ rlCalls = <<>>
  /\ cmdIn = <<>>
  /\ trim = <<>>
  /\ session = "none"
  /\ gc_task = [pc |-> "none", cancel |-> FALSE]
  /\ shut = "no"
  /\ gcLog = <<>>

\* on_startup: ollama.start() has no suspension, so the session is made and
\* the task created in one step
Startup ==
  /\ session = "none"
  /\ session' = "open"
  /\ gc_task' = IF gc_task.pc = "none" THEN [pc |-> "ready", cancel |-> FALSE]
                ELSE gc_task
  /\ UNCHANGED <<now, states, heap, locks, task, gcSleep, msgs, cmds,
                 removed, gcIn, rlCalls, cmdIn, trim, shut, gcLog>>

\* a command arrives while the bot is polling
LifeCommand(c) == session = "open" /\ shut = "no" /\ cmd_start(c)

\* the dicts a call of gc_states that raises may leave: it raised before
\* its first pop, or after the pops of the stale entries
RaisedSweep(sts, hp, T) ==
  { sts,
    PopAll(sts, { sts[i].cid : i \in { j \in 1..Len(sts) :
                    hp[sts[j].obj].last_seen < T - STATE_TTL_SEC } }) }

\* LoopSweep without the try/except around the sweep
LoopSweep_unguarded(raises) ==
  /\ gc_task.pc \in {"ready", "sleep"}
  /\ ~gc_task.cancel
  /\ gcSleep = 0
  /\ IF raises
     THEN \E sts \in RaisedSweep(states, heap, now) :
            /\ states' = sts
            /\ heap' = Collect(heap, sts, task)
     ELSE LET r == gc_states(states, heap, now)
          IN /\ states' = r.states
             /\ heap' = Collect(heap, r.states, task)
  /\ gcLog' = Append(gcLog, IF raises THEN "err" ELSE "ok")
  /\ gc_task' = [gc_task EXCEPT !.pc = IF raises THEN "done" ELSE "sleep"]
  /\ gcSleep' = IF raises THEN gcSleep ELSE STATE_GC_INTERVAL_SEC
  /\ UNCHANGED <<now, locks, task, msgs, cmds, removed, gcIn, rlCalls,
                 cmdIn, trim, session, shut>>

\* gc_loop, one iteration: the task runs (for the first time, or because
\* its sleep is over), sweeps, logs what the sweep raised if it raised,
\* and sleeps
LoopSweep(raises) ==
  /\ gc_task.pc \in {"ready", "sleep"}
  /\ ~gc_task.cancel
  /\ gcSleep = 0
  /\ IF raises
     THEN \E sts \in RaisedSweep(states, heap, now) :
            /\ states' = sts
            /\ heap' = Collect(heap, sts, task)
     ELSE LET r == gc_states(states, heap, now)
          IN /\ states' = r.states
             /\ heap' = Collect(heap, r.states, task)
  /\ gcLog' = Append(gcLog, IF raises THEN "err" ELSE "ok")
  /\ gc_task' = [gc_task EXCEPT !.pc = "sleep"]
  /\ gcSleep' = STATE_GC_INTERVAL_SEC
  /\ UNCHANGED <<now, locks, task, msgs, cmds, removed, gcIn, rlCalls,
                 cmdIn, trim, session, shut>>

\* the task runs after cancel(): CancelledError is raised in it, at its
\* start or at its `await asyncio.sleep`, and ends it
LoopCancelled ==
  /\ gc_task.pc \in {"ready", "sleep"}
  /\ gc_task.cancel
  /\ gc_task' = [gc_task EXCEPT !.pc = "done"]
  /\ UNCHANGED <<now, states, heap, locks, task, gcSleep, msgs, cmds,
                 removed, gcIn, rlCalls, cmdIn, trim, session, shut, gcLog>>

\* on_shutdown up to `await ollama.close()`, which closes the session
ShutdownClose ==
  /\ shut = "no"
  /\ session = "open"
  /\ session' = "closed"
  /\ shut' = "closed"
  /\ UNCHANGED <<now, states, heap, locks, task, gcSleep, msgs, cmds,
                 removed, gcIn, rlCalls, cmdIn, trim, gc_task, gcLog>>

\* on_shutdown from there to `await _gc_task`: _gc_task.cancel()
ShutdownCancel ==
  /\ shut = "closed"
  /\ IF gc_task.pc = "none"
     THEN shut' = "done" /\ UNCHANGED gc_task
     ELSE shut' = "awaiting" /\ gc_task' = [gc_task EXCEPT !.cancel = TRUE]
  /\ UNCHANGED <<now, states, heap, locks, task, gcSleep, msgs, cmds,
                 removed, gcIn, rlCalls, cmdIn, trim, session, gcLog>>

\* the awaited task is done: CancelledError is caught, _gc_task = None
ShutdownDone ==
  /\ shut = "awaiting"
  /\ gc_task.pc = "done"
  /\ gc_task' = [pc |-> "none", cancel |-> FALSE]
  /\ shut' = "done"
  /\ UNCHANGED <<now, states, heap, locks, task, gcSleep, msgs, cmds,
                 removed, gcIn, rlCalls, cmdIn, trim, session, gcLog>>

NextLife ==
  \/ Tick
  \/ Startup
  \/ \E c \in Chats : LifeCommand(c)
  \/ \E raises \in BOOLEAN : LoopSweep(raises)
  \/ LoopCancelled
  \/ ShutdownClose
  \/ ShutdownCancel
  \/ ShutdownDone

SpecLife == InitLife /\ [][NextLife]_vars

(***************************************************************************)
(* SpecLive: the on_text tasks, with exceptions raised inside `async with`, *)
(* and with the fairness that a fair scheduler and calls that terminate    *)
(* give: a task that can run does run, and every await of a handler        *)
(* returns or raises.                                                      *)
(***************************************************************************)
\* an exception is raised in task t inside `async with get_lock(chat_id)`:
\* the lock is released on the way out, the outer handler of on_text
\* catches it and sends the internal-error message
Raise(t) ==
  /\ task[t].pc \in InLock
  /\ locks' = release(locks, task[t].chat_id)
  /\ task' = [task EXCEPT ![t].pc = "answer_internal",
                          ![t].reply = INTERNAL_MSG]
  /\ UNCHANGED <<now, states, heap, gcSleep, aux, msgs, cmds>>

\* that safe_answer is over: on_text returns
InternalDone(t) ==
  /\ task[t].pc = "answer_internal"
  /\ task' = [task EXCEPT ![t] = Idle]
  /\ heap' = Collect(heap, states, task')
  /\ UNCHANGED <<now, states, locks, gcSleep, aux, msgs, cmds>>

\* a step of task t that needs only the scheduler to run t, or the await
\* t is suspended in to end: the lock is handed to t, the typing action is
\* over, the post is answered or fails, the reply is sent
Resumes(t) ==
  \/ LockAcquired(t)
  \/ SendRequest(t)
  \/ \E raw \in RawAnswers : HttpOk(t, raw)
  \/ HttpFail(t)
  \/ AnswerDone(t)
  \/ InternalDone(t)

\* the steps of the on_text tasks.  The clock, the commands and gc_loop
\* change neither a lock nor a task, and are left out.
NextLive ==
  \/ \E t \in Tasks, c \in Chats, txt \in UserTexts : OnText(t, c, txt)
  \/ \E t \in Tasks : LockAcquired(t)
  \/ \E t \in Tasks : SendRequest(t)
  \/ \E t \in Tasks, raw \in RawAnswers : HttpOk(t, raw)
  \/ \E t \in Tasks : HttpFail(t)
  \/ \E t \in Tasks : AnswerDone(t)
  \/ \E t \in Tasks : Raise(t)
  \/ \E t \in Tasks : InternalDone(t)

Fairness == \A t \in Tasks : WF_vars(Resumes(t))

SpecLive == Init /\ [][NextLive]_vars /\ Fairness

\* C20: a lock is locked only while a handler of its chat is inside
\* `async with`, whichever way the handlers before it left; and every task
\* that waits for a chat's lock gets it.
C20_LockReleased ==
  /\ [](\A c \in DOMAIN locks : locks[c].locked => Holders(c) # {})
  /\ \A t \in Tasks : (task[t].pc = "wait_lock") ~> (task[t].pc # "wait_lock")

\* C20's case: a message waits for the lock of a chat whose handler has
\* seen both backend calls fail and is sending the error message.
C20_Witness ==
  \E t, u \in Tasks :
    /\ task[t].pc = "wait_lock"
    /\ task[u].pc = "answer_err"
    /\ task[u].chat_id = task[t].chat_id
    /\ locks[task[t].chat_id].waiters = <<t>>

(***************************************************************************)
(* Properties of SpecLife.                                                 *)
(***************************************************************************)
\* C17 (as claimed): the session is closed only once the task of gc_loop
\* has been cancelled and has ended.
C17_CloseAfterGcStopped ==
  session = "closed" => gc_task.pc \in {"done", "none"}

\* the task of gc_loop is alive and no cancel() was called on it
Looping == gc_task.pc \in {"ready", "sleep"} /\ ~gc_task.cancel

\* C18: a sweep that raises leaves the task of gc_loop asleep for
\* STATE_GC_INTERVAL_SEC, and a task whose sleep is over can sweep; the
\* task ends only after cancel(), and from cancel() on no sweep is made.
C18_LoopSurvivesErrors ==
  /\ [](Looping /\ gcSleep = 0 => ENABLED (\E raises \in BOOLEAN : LoopSweep(raises)))
  /\ [][/\ (gcLog' # gcLog /\ gcLog'[Len(gcLog')] = "err")
            => /\ gc_task' = [pc |-> "sleep", cancel |-> FALSE]
               /\ gcSleep' = STATE_GC_INTERVAL_SEC
        /\ (Looping /\ gc_task' # gc_task)
            => \/ gc_task' = [pc |-> "sleep", cancel |-> FALSE]
               \/ gc_task' = [gc_task EXCEPT !.cancel = TRUE]
        /\ (gc_task.pc # "done" /\ gc_task'.pc = "done") => gc_task.cancel
        /\ ~Looping => gcLog' = gcLog]_vars

\* C18's case: a sweep raised, a later sweep was made, and the task was
\* then cancelled and has ended.
C18_Witness ==
  /\ gc_task.pc = "done"
  /\ \E i, j \in 1..Len(gcLog) : i < j /\ gcLog[i] = "err"

====
